---- MODULE Spec2Model ----
(***************************************************************************)
(* A model of the three scripts of hypr-claw:                              *)
(*   happy/fibonacci.py            fibonacci(n) and the interactive main   *)
(*   add_json_imports.py           inserts 'use serde_json::json;'         *)
(*   update_tool_registry_mocks.py inserts a get_tool_schemas method       *)
(* One behaviour is one invocation of one script (a codemod may be run a   *)
(* second time on the files its first run left).                           *)
(***************************************************************************)
EXTENDS Integers, Sequences, FiniteSets, TLC

VARIABLES script, pc, input, stdout, calls, result, fs, idx, run, writes, before

vars == <<script, pc, input, stdout, calls, result, fs, idx, run, writes, before>>

\* ------------------------------------------------------------------ bounds
\* Largest count handed to fibonacci.
MaxN == 12
\* Longest text typed at the prompt.
MaxInputLen == 3
\* Length of the modelled prefix of the hard-coded path list.
NumFiles == 2
\* Longest text, in tokens, of the file whose text ranges over every text.
MaxLen == 5

SeqsUpTo(S, n) == UNION {[1..k -> S] : k \in 0..n}

RECURSIVE Concat(_)
Concat(ss) == IF ss = <<>> THEN <<>> ELSE Head(ss) \o Concat(Tail(ss))

\* ------------------------------------------------------- happy/fibonacci.py
\* FibLoop with the loop ending one iteration early.
RECURSIVE FibLoopShort(_, _, _)
FibLoopShort(s, i, n) ==
    IF i >= n - 1 THEN s ELSE FibLoopShort(Append(s, s[i] + s[i - 1]), i + 1, n)

\* The loop of fibonacci: fib_series is 0-based in the source, 1-based here,
\* so fib_series[i-1] + fib_series[i-2] is s[i] + s[i-1].
RECURSIVE FibLoop(_, _, _)
FibLoop(s, i, n) ==
    IF i >= n THEN s ELSE FibLoop(Append(s, s[i] + s[i - 1]), i + 1, n)

\* fibonacci seeded 1, 1.
fibonacciSeedOne(n) ==
    IF n <= 0 THEN <<>>
    ELSE IF n = 1 THEN <<1>>
    ELSE IF n = 2 THEN <<1, 1>>
    ELSE FibLoop(<<1, 1>>, 2, n)

fibonacci(n) ==
    IF n <= 0 THEN <<>>
    ELSE IF n = 1 THEN <<0>>
    ELSE IF n = 2 THEN <<0, 1>>
    ELSE FibLoop(<<0, 1>>, 2, n)

\* Characters of the texts typed at the prompt.
Digits == <<"0", "1", "2", "5">>
DigitChars == {Digits[k] : k \in DOMAIN Digits}
InputChars == DigitChars \cup {"-", " ", "x"}

DigitValue(c) ==
    CASE c = "0" -> 0 [] c = "1" -> 1 [] c = "2" -> 2 [] c = "5" -> 5

RECURSIVE LStrip(_)
LStrip(s) == IF s # <<>> /\ Head(s) = " " THEN LStrip(Tail(s)) ELSE s

RECURSIVE RStrip(_)
RStrip(s) ==
    IF s # <<>> /\ s[Len(s)] = " " THEN RStrip(SubSeq(s, 1, Len(s) - 1)) ELSE s

\* The digits of an integer literal, left to right; -1 stands for ValueError.
RECURSIVE Accumulate(_, _)
Accumulate(s, acc) ==
    IF s = <<>> THEN acc
    ELSE IF Head(s) \notin DigitChars THEN -1
    ELSE Accumulate(Tail(s), 10 * acc + DigitValue(Head(s)))

\* int reading a text without digits as 0.
intNoDigits(s) ==
    LET t == RStrip(LStrip(s))
        neg == t # <<>> /\ Head(t) = "-"
        d == IF neg THEN Tail(t) ELSE t
        v == Accumulate(d, 0)
    IN  IF v < 0 THEN [ok |-> FALSE, val |-> 0]
        ELSE [ok |-> TRUE, val |-> IF neg THEN 0 - v ELSE v]

\* int taking the sign for part of the digits' magnitude.
intNoSign(s) ==
    LET t == RStrip(LStrip(s))
        neg == t # <<>> /\ Head(t) = "-"
        d == IF neg THEN Tail(t) ELSE t
        v == IF d = <<>> THEN -1 ELSE Accumulate(d, 0)
    IN  IF v < 0 THEN [ok |-> FALSE, val |-> 0]
        ELSE [ok |-> TRUE, val |-> v]

\* Python's int(str): surrounding whitespace is dropped, one sign is allowed,
\* at least one digit must follow and nothing else may.
int(s) ==
    LET t == RStrip(LStrip(s))
        neg == t # <<>> /\ Head(t) = "-"
        d == IF neg THEN Tail(t) ELSE t
        v == IF d = <<>> THEN -1 ELSE Accumulate(d, 0)
    IN  IF v < 0 THEN [ok |-> FALSE, val |-> 0]
        ELSE [ok |-> TRUE, val |-> IF neg THEN 0 - v ELSE v]

\* The texts the model types: every text whose count fibonacci can be given.
InputTexts ==
    {s \in SeqsUpTo(InputChars, MaxInputLen) : int(s).ok => int(s).val <= MaxN}

Line(kind, val) == [kind |-> kind, val |-> val]
Banner == <<Line("banner", <<>>), Line("rule", <<>>)>>

\* A call of fibonacci(n) from an importing program.
CallFibonacci ==
    /\ script = "fibonacci" /\ pc = "call"
    /\ \E n \in (0 - MaxN)..MaxN :
         /\ calls' = Append(calls, n)
         /\ result' = fibonacci(n)
    /\ pc' = "returned"
    /\ UNCHANGED <<script, input, stdout, fs, idx, run, writes, before>>

\* main, lines 32-33: the banner.
MainBanner ==
    /\ script = "main" /\ pc = "start"
    /\ stdout' = stdout \o Banner
    /\ pc' = "prompt"
    /\ UNCHANGED <<script, input, calls, result, fs, idx, run, writes, before>>

\* main, lines 35-48: the prompt, the conversion and what follows it.
MainPrompt ==
    /\ script = "main" /\ pc = "prompt"
    /\ LET n == int(input) IN
         IF ~n.ok
         THEN /\ stdout' = Append(stdout, Line("invalid", <<>>))
              /\ UNCHANGED <<calls, result>>
         ELSE IF n.val < 0
         THEN /\ stdout' = Append(stdout, Line("negative", <<>>))
              /\ UNCHANGED <<calls, result>>
         ELSE /\ calls' = Append(calls, n.val)
              /\ result' = fibonacci(n.val)
              /\ stdout' = stdout \o <<Line("header", <<n.val>>),
                                       Line("series", fibonacci(n.val))>>
    /\ pc' = "done"
    /\ UNCHANGED <<script, input, fs, idx, run, writes, before>>

\* ------------------------------------------------- the codemods' file texts
\* A file's text is a sequence of tokens. Each token is the literal text the
\* scripts' patterns look for, a single character they tell apart, or a run of
\* characters they do not (WS: blanks other than a newline, TXT: anything else).
KW_USE == "use "
JSON == "serde_json::json"
SEMI == ";"
BANG == "!"
NL == "\n"
TXT == "x"
WS == " "
RBRACE == "}"
ACTIVE == "fn get_active_tools(&self"
SCHEMAS == "fn get_tool_schemas"

\* Python's `sub in content`.
Contains(content, sub) ==
    \E i \in 1..(Len(content) - Len(sub) + 1) :
        SubSeq(content, i, i + Len(sub) - 1) = sub

\* F(v), with v worked out once however often F uses it: a local variable.
Let(v, F(_)) == CHOOSE r \in {F(x) : x \in {v}} : TRUE

\* The first index from p on that holds one of toks, Len(content) + 1 if none.
Find(content, p, toks) ==
    IF p > Len(content) THEN Len(content) + 1
    ELSE CHOOSE i \in p..(Len(content) + 1) :
            /\ i <= Len(content) => content[i] \in toks
            /\ \A j \in p..(i - 1) : content[j] \notin toks

\* The first index from p on that holds none of toks, Len(content) + 1 if none.
Skip(content, p, toks) ==
    IF p > Len(content) THEN Len(content) + 1
    ELSE CHOOSE i \in p..(Len(content) + 1) :
            /\ i <= Len(content) => content[i] \notin toks
            /\ \A j \in p..(i - 1) : content[j] \in toks

\* The hard-coded list both codemods walk; the model walks its first NumFiles
\* paths, named by their index.
files == <<"hypr-claw-app/src/commands/run.rs",
           "hypr-claw-app/tests/session_persistence_test.rs",
           "hypr-claw-runtime/src/runtime_controller.rs",
           "hypr-claw-runtime/tests/stress_test.rs",
           "hypr-claw-runtime/tests/integration_runtime.rs",
           "hypr-claw-runtime/tests/failure_simulation.rs",
           "hypr-claw-runtime/tests/test_production_hardening.rs",
           "hypr-claw-runtime/tests/lock_permit_safety.rs",
           "hypr-claw-runtime/tests/failure_scenarios.rs",
           "hypr-claw-runtime/tests/startup_integrity.rs">>
Paths == 1..NumFiles

\* What a path names: a file, a file that cannot be opened for writing,
\* nothing (open raises FileNotFoundError), or something open or read raises
\* another exception for.
File(status, content) == [status |-> status, content |-> content]
Readable(f) == f.status \in {"file", "readonly"}

\* One loop iteration's effect on path idx: the line printed and the text left.
Outcome(kind, content) == [kind |-> kind, content |-> content]

\* Iterate with the try around the loop: an error line ends the run.
IterateAbort(o) ==
    /\ stdout' = Append(stdout, Line(o.kind, <<idx>>))
    /\ fs' = [fs EXCEPT ![idx].content = o.content]
    /\ writes' = [writes EXCEPT ![idx] = @ + (IF o.kind \in {"added", "updated"} THEN 1 ELSE 0)]
    /\ idx' = idx + 1
    /\ pc' = IF idx = NumFiles \/ o.kind \in {"error", "notfound"} THEN "exit" ELSE "loop"
    /\ UNCHANGED <<script, input, calls, result, run, before>>

\* Iterate without the continue after a skip: a second line follows it.
IterateNoContinue(o) ==
    /\ stdout' = stdout \o (IF o.kind = "skipped"
                             THEN <<Line(o.kind, <<idx>>), Line("nouse", <<idx>>)>>
                             ELSE <<Line(o.kind, <<idx>>)>>)
    /\ fs' = [fs EXCEPT ![idx].content = o.content]
    /\ writes' = [writes EXCEPT ![idx] = @ + (IF o.kind \in {"added", "updated"} THEN 1 ELSE 0)]
    /\ idx' = idx + 1
    /\ pc' = IF idx = NumFiles THEN "exit" ELSE "loop"
    /\ UNCHANGED <<script, input, calls, result, run, before>>

Iterate(o) ==
    /\ stdout' = Append(stdout, Line(o.kind, <<idx>>))
    /\ fs' = [fs EXCEPT ![idx].content = o.content]
    /\ writes' = [writes EXCEPT ![idx] = @ + (IF o.kind \in {"added", "updated"} THEN 1 ELSE 0)]
    /\ idx' = idx + 1
    /\ pc' = IF idx = NumFiles THEN "exit" ELSE "loop"
    /\ UNCHANGED <<script, input, calls, result, run, before>>

\* -------------------------------------------------------- add_json_imports.py
IMPORT == <<KW_USE, JSON, SEMI>>
MACRO == <<JSON, BANG>>

\* r'(use [^;]+;)\n' tried at p: the index of the newline that ends the match,
\* 0 if there is no match at p.
UseMatch(content, p) ==
    Let(Find(content, p + 1, {SEMI}), LAMBDA q :
        IF /\ content[p] = KW_USE
           /\ q > p + 1
           /\ q + 1 <= Len(content)
           /\ content[q + 1] = NL
        THEN q + 1 ELSE 0)

\* list(re.finditer(use_pattern, content)): the ends of the matches from p on,
\* left to right, none overlapping another. A match can only start at 'use '.
RECURSIVE FindIter(_, _)
FindIter(content, p) ==
    Let(Find(content, p, {KW_USE}), LAMBDA u :
        IF u > Len(content) THEN <<>>
        ELSE Let(UseMatch(content, u), LAMBDA end :
                 IF end = 0 THEN FindIter(content, u + 1)
                 ELSE <<end>> \o FindIter(content, end + 1)))

\* Lines 32-34: new_content, the import line put in after the last match.
Inserted(f, matches) ==
    LET insert_pos == matches[Len(matches)]
    IN  SubSeq(f.content, 1, insert_pos) \o IMPORT \o <<NL>>
        \o SubSeq(f.content, insert_pos + 1, Len(f.content))

\* AddJsonImport without the test for the import being there already.
AddJsonImportNoImportTest(f) ==
    IF ~Readable(f) THEN Outcome("error", f.content)
    ELSE IF ~Contains(f.content, MACRO) THEN Outcome("skipped", f.content)
    ELSE Let(FindIter(f.content, 1), LAMBDA matches :
         IF matches # <<>>
         THEN IF f.status = "readonly" THEN Outcome("error", f.content)
              ELSE Outcome("added", Inserted(f, matches))
         ELSE Outcome("nouse", f.content))

\* AddJsonImport without the test for the macro being used.
AddJsonImportNoMacroTest(f) ==
    IF ~Readable(f) THEN Outcome("error", f.content)
    ELSE IF Contains(f.content, IMPORT) THEN Outcome("skipped", f.content)
    ELSE Let(FindIter(f.content, 1), LAMBDA matches :
         IF matches # <<>>
         THEN IF f.status = "readonly" THEN Outcome("error", f.content)
              ELSE Outcome("added", Inserted(f, matches))
         ELSE Outcome("nouse", f.content))

\* Lines 19-42 for one path.
AddJsonImport(f) ==
    IF ~Readable(f) THEN Outcome("error", f.content)
    ELSE IF Contains(f.content, IMPORT) \/ ~Contains(f.content, MACRO)
    THEN Outcome("skipped", f.content)
    ELSE Let(FindIter(f.content, 1), LAMBDA matches :
         IF matches # <<>>
         THEN IF f.status = "readonly" THEN Outcome("error", f.content)
              ELSE Outcome("added", Inserted(f, matches))
         ELSE Outcome("nouse", f.content))

AddJsonImports ==
    /\ script = "add_json_imports" /\ pc = "loop"
    /\ \E o \in {AddJsonImport(fs[idx])} : Iterate(o)

\* ----------------------------------------------- update_tool_registry_mocks.py
TOOL_SCHEMA_METHOD ==
    <<NL>>
    \o <<WS, SCHEMAS, TXT, WS, TXT, WS, TXT, WS, TXT, WS, TXT, WS, TXT, NL>>
    \o <<WS, TXT, NL>>
    \o <<WS, TXT, NL>>
    \o <<WS, TXT, WS, TXT, NL>>
    \o <<WS, TXT, WS, TXT, NL>>
    \o <<WS, TXT, WS, TXT, NL>>
    \o <<WS, TXT, WS, TXT, WS, TXT, WS, TXT, NL>>
    \o <<WS, TXT, WS, TXT, NL>>
    \o <<WS, TXT, WS, TXT, NL>>
    \o <<WS, TXT, WS, TXT, NL>>
    \o <<WS, TXT, WS, TXT, WS, TXT, RBRACE, NL>>
    \o <<WS, RBRACE, TXT, NL>>
    \o <<WS, TXT, WS, TXT, NL>>
    \o <<WS, RBRACE, NL>>
    \o <<WS, RBRACE, NL>>
    \o <<WS, RBRACE, TXT, NL>>
    \o <<WS, TXT, NL>>
    \o <<WS, RBRACE>>

\* The last index in lo..hi that holds a newline, 0 if none.
LastNewline(content, lo, hi) ==
    CHOOSE n \in {0} \cup (lo..hi) :
        /\ n # 0 => content[n] = NL
        /\ \A j \in lo..hi : j > n => content[j] # NL

\* r'(fn get_active_tools\(&self[^}]+\})\s*\n(\s*)\}' tried at p: group 1 ends
\* at the first '}', the blanks after it must hold a newline and be followed
\* by '}', and group 2 is what follows the last of those newlines.
ToolsMatch(content, p) ==
    Let(Find(content, p + 1, {RBRACE}), LAMBDA q :
    Let(Skip(content, q + 1, {NL, WS}), LAMBDA e :
    Let(LastNewline(content, q + 1, e - 1), LAMBDA n :
        IF /\ content[p] = ACTIVE
           /\ q > p + 1
           /\ q <= Len(content)
           /\ n > 0
           /\ e <= Len(content)
           /\ content[e] = RBRACE
        THEN [ok |-> TRUE, method |-> SubSeq(content, p, q),
              indent |-> SubSeq(content, n + 1, e - 1), end |-> e]
        ELSE [ok |-> FALSE, method |-> <<>>, indent |-> <<>>, end |-> 0])))

replacer(match) ==
    match.method \o <<NL>> \o TOOL_SCHEMA_METHOD \o <<NL>> \o match.indent \o <<RBRACE>>

\* re.sub(pattern, replacer, content) from p on: every match, left to right and
\* none overlapping another, gives way to what replacer returns for it; the
\* text between matches stays. A match can only start at 'fn get_active_tools(&self'.
RECURSIVE Sub(_, _)
Sub(content, p) ==
    Let(Find(content, p, {ACTIVE}), LAMBDA a :
        IF a > Len(content) THEN SubSeq(content, p, Len(content))
        ELSE Let(ToolsMatch(content, a), LAMBDA match :
                 IF match.ok
                 THEN SubSeq(content, p, a - 1) \o replacer(match)
                      \o Sub(content, match.end + 1)
                 ELSE SubSeq(content, p, a) \o Sub(content, a + 1)))

\* Lines 39-62 for one path.
UpdateToolRegistryMock(f) ==
    IF f.status = "missing" THEN Outcome("notfound", f.content)
    ELSE IF ~Readable(f) THEN Outcome("error", f.content)
    ELSE Let(Sub(f.content, 1), LAMBDA new_content :
         IF new_content # f.content
         THEN IF f.status = "readonly" THEN Outcome("error", f.content)
              ELSE Outcome("updated", new_content)
         ELSE Outcome("skipped", f.content))

UpdateToolRegistryMocks ==
    /\ script = "update_tool_registry_mocks" /\ pc = "loop"
    /\ \E o \in {UpdateToolRegistryMock(fs[idx])} : Iterate(o)

\* The same script started again on the files its first run left. before[r] is
\* the file system run r started on; stdout and writes are those of one run.
Rerun ==
    /\ script \in {"add_json_imports", "update_tool_registry_mocks"}
    /\ pc = "exit" /\ run = 1
    /\ run' = 2 /\ idx' = 1 /\ pc' = "loop"
    /\ stdout' = <<>>
    /\ writes' = [p \in Paths |-> 0]
    /\ before' = Append(before, fs)
    /\ UNCHANGED <<script, input, calls, result, fs>>

\* --------------------------------------------------------- the file systems
JsonTokens == {KW_USE, JSON, SEMI, BANG, NL}
MockTokens == {ACTIVE, SCHEMAS, RBRACE, NL, WS}

\* Rust files of the shapes the codemods were written for, line by line.
JsonSamples ==
    {Concat(ls) : ls \in {
        \* use std::fmt; / use std::io; / let v = serde_json::json!({});
        <<<<KW_USE, TXT, SEMI, NL>>, <<KW_USE, TXT, SEMI, NL>>,
          <<TXT, JSON, BANG, TXT, SEMI, NL>>>>,
        \* use std::fmt; / use serde_json::json; / let v = serde_json::json!({});
        <<<<KW_USE, TXT, SEMI, NL>>, <<KW_USE, JSON, SEMI, NL>>,
          <<TXT, JSON, BANG, TXT, SEMI, NL>>>>,
        \* use std::fmt; / use std::io; // io / let v = serde_json::json!({});
        <<<<KW_USE, TXT, SEMI, NL>>, <<KW_USE, TXT, SEMI, WS, TXT, NL>>,
          <<TXT, JSON, BANG, TXT, SEMI, NL>>>>,
        \* let v = serde_json::json!({});
        <<<<TXT, JSON, BANG, TXT, SEMI, NL>>>>,
        \* use std::fmt; / fn main() {}
        <<<<KW_USE, TXT, SEMI, NL>>, <<TXT, NL>>>>}}

MockSamples ==
    {Concat(ls) : ls \in {
        \* impl R for M { / fn get_active_tools(&self, ..) { vec![] } / }
        <<<<TXT, NL>>, <<WS, ACTIVE, TXT, RBRACE, NL>>, <<RBRACE, NL>>>>,
        \* the same with get_tool_schemas after get_active_tools
        <<<<TXT, NL>>, <<WS, ACTIVE, TXT, RBRACE, NL>>,
          <<WS, SCHEMAS, TXT, RBRACE, NL>>, <<RBRACE, NL>>>>,
        \* the same with get_tool_schemas before get_active_tools
        <<<<TXT, NL>>, <<WS, SCHEMAS, TXT, RBRACE, NL>>,
          <<WS, ACTIVE, TXT, RBRACE, NL>>, <<RBRACE, NL>>>>,
        \* two impl blocks inside mod tests { .. }
        <<<<TXT, NL>>, <<WS, TXT, NL>>, <<WS, ACTIVE, TXT, RBRACE, NL>>, <<WS, RBRACE, NL>>,
          <<WS, TXT, NL>>, <<WS, ACTIVE, TXT, RBRACE, NL>>, <<WS, RBRACE, NL>>,
          <<RBRACE, NL>>>>,
        \* fn main() {}
        <<<<TXT, RBRACE, NL>>>>}}

\* What a path may name when the files hold the texts of samples.
SampleFiles(samples) ==
    {File(st, c) : st \in {"file", "readonly"}, c \in samples}
    \cup {File("missing", <<>>), File("unreadable", <<>>)}

SampleFileSystems(samples) == [Paths -> SampleFiles(samples)]

\* One path holds any text of at most MaxLen tokens, the others are empty files.
TokenFileSystems(tokens) ==
    {[p \in Paths |-> IF p = k THEN File("file", s) ELSE File("file", <<>>)] :
        k \in Paths, s \in SeqsUpTo(tokens, MaxLen)}

InitCodemod(json, mock) ==
    /\ \/ script = "add_json_imports" /\ fs \in json
       \/ script = "update_tool_registry_mocks" /\ fs \in mock
    /\ pc = "loop" /\ idx = 1 /\ run = 1
    /\ writes = [p \in Paths |-> 0]
    /\ before = <<fs>>
    /\ input = <<>> /\ stdout = <<>> /\ calls = <<>> /\ result = <<>>

InitFibonacci ==
    /\ script = "fibonacci" /\ pc = "call" /\ input = <<>>

InitMain ==
    /\ script = "main" /\ pc = "start" /\ input \in InputTexts

InitScript ==
    /\ InitFibonacci \/ InitMain
    /\ stdout = <<>> /\ calls = <<>> /\ result = <<>>
    /\ fs = <<>> /\ idx = 0 /\ run = 0 /\ writes = <<>> /\ before = <<>>

Init ==
    \/ InitScript
    \/ InitCodemod(SampleFileSystems(JsonSamples) \cup TokenFileSystems(JsonTokens),
                   SampleFileSystems(MockSamples) \cup TokenFileSystems(MockTokens))

\* The runs on sample files only.
InitSamples ==
    \/ InitScript
    \/ InitCodemod(SampleFileSystems(JsonSamples), SampleFileSystems(MockSamples))

Next ==
    \/ CallFibonacci
    \/ MainBanner
    \/ MainPrompt
    \/ AddJsonImports
    \/ UpdateToolRegistryMocks
    \/ Rerun

Spec == Init /\ [][Next]_vars

\* Python runs the next iteration of a for loop as long as there is one.
FairSpec ==
    /\ InitSamples /\ [][Next]_vars
    /\ WF_vars(AddJsonImports) /\ WF_vars(UpdateToolRegistryMocks)

\* ------------------------------------------------------------------ claims
Codemods == {"add_json_imports", "update_tool_registry_mocks"}
Kinds(lines) == {lines[k].kind : k \in DOMAIN lines}

\* C1: for every n >= 0, fibonacci(n) is a sequence of length exactly n in
\* which every term from the third on is the sum of the two terms before it.
C1_LengthAndRecurrence ==
    (calls # <<>> /\ calls[1] >= 0) =>
        /\ Len(result) = calls[1]
        /\ \A i \in 3..Len(result) : result[i] = result[i - 1] + result[i - 2]

C1_Witness ==
    /\ script = "fibonacci" /\ pc = "returned"
    /\ calls[1] >= 5 /\ Len(result) = calls[1]

\* C2: fibonacci(0) = [], fibonacci(1) = [0], fibonacci(2) = [0, 1] and
\* fibonacci(5) = [0, 1, 1, 2, 3]; every non-empty result starts with 0 and
\* every result of two terms or more starts 0, 1.
C2_SmallResults ==
    calls # <<>> =>
        /\ calls[1] = 0 => result = <<>>
        /\ calls[1] = 1 => result = <<0>>
        /\ calls[1] = 2 => result = <<0, 1>>
        /\ calls[1] = 5 => result = <<0, 1, 1, 2, 3>>
        /\ Len(result) >= 1 => result[1] = 0
        /\ Len(result) >= 2 => result[2] = 1

C2_Witness ==
    /\ script = "fibonacci" /\ pc = "returned"
    /\ calls = <<5>> /\ result = <<0, 1, 1, 2, 3>>

\* What the prompt's text is, read off the text itself: blanks, an optional
\* minus sign, one digit or more, blanks.
IsIntegerText(s) ==
    \E i, j \in 1..Len(s) :
        /\ i <= j
        /\ \A k \in 1..(i - 1) : s[k] = " "
        /\ \A k \in (j + 1)..Len(s) : s[k] = " "
        /\ s[i] \in DigitChars \cup {"-"}
        /\ s[i] = "-" => i < j
        /\ \A k \in (i + 1)..j : s[k] \in DigitChars

IsNegativeText(s) ==
    /\ IsIntegerText(s)
    /\ \E i \in 1..Len(s) : s[i] = "-"
    /\ \E i \in 1..Len(s) : s[i] \in DigitChars \ {"0"}

\* The decimal numeral of k >= 0.
RECURSIVE Numeral(_)
Numeral(k) ==
    IF k < 10 THEN <<CASE k = 0 -> "0" [] k = 1 -> "1" [] k = 2 -> "2" [] k = 3 -> "3"
                       [] k = 4 -> "4" [] k = 5 -> "5" [] k = 6 -> "6" [] k = 7 -> "7"
                       [] k = 8 -> "8" [] k = 9 -> "9">>
    ELSE Numeral(k \div 10) \o Numeral(k % 10)

\* The count a text without a minus sign stands for: the number whose numeral
\* its digits are, leading zeros apart.
TextValue(s) ==
    LET d == SelectSeq(s, LAMBDA c : c \in DigitChars)
    IN  CHOOSE k \in 0..MaxN :
            \E z \in 0..Len(d) : d = [m \in 1..z |-> "0"] \o Numeral(k)

\* C6: when the text typed at the prompt is no integer, main prints the
\* rejection message, never calls fibonacci, prints no sequence, and ends.
C6_NonIntegerRejected ==
    (script = "main" /\ ~IsIntegerText(input)) =>
        /\ calls = <<>>
        /\ "series" \notin Kinds(stdout)
        /\ pc = "done" => stdout = Banner \o <<Line("invalid", <<>>)>>
        /\ pc # "done" => "invalid" \notin Kinds(stdout)

C6_Witness ==
    /\ script = "main" /\ pc = "done"
    /\ input = <<"1", "x">>
    /\ stdout = Banner \o <<Line("invalid", <<>>)>>

\* C7: when the integer typed is negative, main prints the non-negative-number
\* message and returns without calling fibonacci or printing a sequence; a
\* sequence is printed if and only if the text is an integer n >= 0, and it is
\* then exactly fibonacci(n).
C7_NegativeRejected ==
    (script = "main" /\ pc = "done") =>
        /\ IsNegativeText(input) =>
              /\ stdout = Banner \o <<Line("negative", <<>>)>>
              /\ calls = <<>>
        /\ "series" \in Kinds(stdout) <=> (IsIntegerText(input) /\ ~IsNegativeText(input))
        /\ "series" \in Kinds(stdout) =>
              /\ calls = <<TextValue(input)>>
              /\ stdout = Banner \o <<Line("header", <<TextValue(input)>>),
                                      Line("series", fibonacci(TextValue(input)))>>

C7_Witness ==
    /\ script = "main" /\ pc = "done"
    /\ input = <<"-", "1", "2">>
    /\ stdout = Banner \o <<Line("negative", <<>>)>>
    /\ calls = <<>>

\* The text this run found at path p, and the text there now.
Old(p) == before[run][p].content
New(p) == fs[p].content

\* C3: the codemods are idempotent: a second run of either script, after a
\* first run on any files, writes nothing and leaves every file as the first
\* run left it.
C3_SecondRunChangesNothing ==
    (script \in Codemods /\ run = 2) =>
        \A p \in Paths : New(p) = Old(p) /\ writes[p] = 0

C3_Witness ==
    /\ script = "update_tool_registry_mocks" /\ run = 2 /\ pc = "exit"
    /\ \A p \in Paths : before[1][p].content # before[2][p].content
    /\ \A p \in Paths : New(p) = Old(p)

\* The text whose presence each utility is said to test for.
Target ==
    IF script = "add_json_imports" THEN IMPORT ELSE <<SCHEMAS>>

\* C4: a file that already contains the text the utility would insert ('use
\* serde_json::json;', a get_tool_schemas method) is never rewritten by it.
C4_PresentTextNeverRewritten ==
    script \in Codemods =>
        \A p \in Paths : Contains(Old(p), Target) => New(p) = Old(p) /\ writes[p] = 0

NotFoundLine(p) ==
    Line(IF script = "add_json_imports" THEN "error" ELSE "notfound", <<p>>)

\* C5: when the loop comes to a path whose file is missing, its step prints an
\* error line for that path, writes no file and goes on to the next path; a
\* run only ends once every path of the list has had its line.
C5_MissingFileSkipped ==
    /\ [][(script \in Codemods /\ pc = "loop" /\ fs[idx].status = "missing") =>
            /\ stdout' = Append(stdout, NotFoundLine(idx))
            /\ fs' = fs /\ writes' = writes
            /\ idx' = idx + 1
            /\ pc' = (IF idx < NumFiles THEN "loop" ELSE "exit")]_vars
    /\ [](script \in Codemods =>
            /\ pc = "loop" => idx <= NumFiles
            /\ pc = "exit" =>
                  /\ Len(stdout) = NumFiles
                  /\ \A q \in Paths :
                        /\ stdout[q].val = <<q>>
                        /\ fs[q].status = "missing" => stdout[q] = NotFoundLine(q)
                        /\ fs[q].status = "file" =>
                              stdout[q].kind \in {"added", "skipped", "nouse", "updated"})

C5_Witness ==
    /\ script \in Codemods /\ run = 1 /\ pc = "exit"
    /\ fs[1].status = "missing"
    /\ stdout[NumFiles].kind \in {"added", "updated"}
    /\ New(NumFiles) # Old(NumFiles)

\* The use statements of a Rust text: 'use ', a path, ';'. <<u, e>> is where
\* one starts and where its semicolon is.
UseStatements(content) ==
    {ue \in (1..Len(content)) \X (1..Len(content)) :
        /\ content[ue[1]] = KW_USE
        /\ ue[2] > ue[1] + 1
        /\ content[ue[2]] = SEMI
        /\ \A k \in (ue[1] + 1)..(ue[2] - 1) : content[k] # SEMI}

LastUseStatement(content) ==
    CHOOSE ue \in UseStatements(content) :
        \A other \in UseStatements(content) : other[1] <= ue[1]

\* C8: a file add_json_imports rewrites becomes its old text with exactly one
\* line 'use serde_json::json;' put in right after the newline that ends the
\* last use statement of the file, nothing else added, removed or reordered.
C8_InsertedAfterLastUse ==
    script = "add_json_imports" =>
        \A p \in Paths : New(p) # Old(p) =>
            /\ UseStatements(Old(p)) # {}
            /\ LET e == LastUseStatement(Old(p))[2] IN
                 /\ e + 1 <= Len(Old(p))
                 /\ Old(p)[e + 1] = NL
                 /\ New(p) = SubSeq(Old(p), 1, e + 1) \o IMPORT \o <<NL>>
                             \o SubSeq(Old(p), e + 2, Len(Old(p)))

\* C9: add_json_imports writes a file only if its text uses the macro, lacks
\* the import and has a use statement; otherwise the text is left as it was;
\* either way one line reports the outcome and the next path follows.
C9_WritesOnlyWhenNeeded ==
    script = "add_json_imports" =>
        /\ Len(stdout) = idx - 1
        /\ \A p \in Paths :
              /\ (New(p) # Old(p) \/ writes[p] > 0) =>
                    /\ p < idx /\ stdout[p].kind = "added"
                    /\ Contains(Old(p), MACRO)
                    /\ ~Contains(Old(p), IMPORT)
                    /\ UseStatements(Old(p)) # {}
              /\ p < idx =>
                    /\ stdout[p].val = <<p>>
                    /\ stdout[p].kind \in {"added", "skipped", "nouse", "error"}
                    /\ stdout[p].kind = "added" => (New(p) # Old(p) /\ writes[p] = 1)
                    /\ Contains(Old(p), IMPORT) => stdout[p].kind \in {"skipped", "error"}
                    /\ ~Contains(Old(p), MACRO) => stdout[p].kind \in {"skipped", "error"}
                    /\ UseStatements(Old(p)) = {} => stdout[p].kind # "added"
                    /\ ~Readable(fs[p]) => stdout[p].kind = "error"
        /\ pc = "loop" <=> idx <= NumFiles

C9_Witness ==
    /\ script = "add_json_imports" /\ run = 1 /\ pc = "exit"
    /\ stdout[1].kind = "nouse" /\ New(1) = Old(1)
    /\ stdout[NumFiles].kind = "added" /\ New(NumFiles) # Old(NumFiles)

\* A run that is over has handled every path once, in list order.
RunComplete ==
    /\ idx = NumFiles + 1
    /\ Len(stdout) = NumFiles
    /\ \A p \in Paths : stdout[p].val = <<p>> /\ writes[p] <= 1

\* C10: every run of a codemod ends, having handled each path of the list
\* once and in order, with one status line per path and at most one write per
\* file, whichever files are missing, unmatched or raise errors.
C10_RunTerminates ==
    /\ [](script \in Codemods =>
            /\ Len(stdout) = idx - 1
            /\ \A p \in Paths : writes[p] <= (IF p < idx THEN 1 ELSE 0)
            /\ pc = "exit" => RunComplete)
    /\ [][(script \in Codemods /\ pc = "loop") => (idx' = idx + 1)]_vars
    /\ (script \in Codemods /\ pc = "loop") ~> (pc = "exit" /\ RunComplete)

C10_Witness ==
    /\ script \in Codemods /\ pc = "exit" /\ RunComplete
    /\ {"notfound", "updated"} \subseteq Kinds(stdout)
====
